---- MODULE Spec2Model ----
(***************************************************************************)
(* Pressr: bounded-concurrency request dispatcher and result aggregation.  *)
(*                                                                         *)
(* Two dispatchers are modelled, selected by `runner`:                     *)
(*   "core" - pressr-core/src/runner.rs   (Runner::run, execute_request,   *)
(*            aggregation by pressr-core/src/result.rs LoadTestResults::new)*)
(*   "cli"  - pressr-cli/src/runner.rs    (Runner::run with the shared     *)
(*            Arc<Mutex<LoadTestResults>> collector and add_result)        *)
(* Both drive  stream::iter(indices).map(..).buffer_unordered(concurrency) *)
(* and are polled by a single task; the model follows the poll loop of     *)
(* BufferUnordered: fill the in-progress queue up to the limit, then poll  *)
(* the queue, then park until a transport event wakes the task.            *)
(***************************************************************************)
EXTENDS Integers, Sequences, FiniteSets, TLC

\* ------------------------------------------------------------------ bounds
MaxRequests == 3
MaxConcurrency == 2
MaxTime == 1
\* Number of times Runner::run is called on one Runner.
MaxRuns == 2
\* Number of calls of generate_report in one execution of the CLI: the
\* primary report and the additional formats.
MaxReports == 2
\* Number of report generations that run at the same time.
MaxGenerators == 2

\* ------------------------------------------------------- transport inputs
\* Status codes the endpoint of a run may answer with: one inside and one
\* just outside the 2xx range.
Statuses == {200, 300}
\* Status codes at and around the ends of the 2xx range, for the branches
\* of execute_request taken one answer at a time.
BoundaryStatuses == {199, 200, 299, 300, 404, 500}
\* Body lengths of a fully read response.
Sizes == {10}
\* Display strings of transport faults (reqwest::Error).
TransportErrors == {"connection refused"}
\* Display strings of the error a request built from an unparsable URL
\* resolves to when it is sent.
BuilderErrors == {"builder error: relative URL without a base"}
BodyErrors == {"error decoding response body"}
\* Target URLs a Runner may be configured with: Config.url is a String and
\* takes any text.
Urls == {"http://localhost:8080/", "not a url"}
\* client.request(method, &url): the text is parsed when the builder is
\* made; a text without a scheme does not parse.
UrlParses(u) == u \in {"http://localhost:8080/"}

\* u128::MAX, the initial value of the running minimum.  It is represented
\* by the largest integer of the model checker; every latency of the model
\* is far below it.
U128_MAX == 2147483647

\* Option<T>
None == <<>>
Some(x) == <<x>>
IsSome(o) == o # None
Unwrap(o) == o[1]

\* Variant of Entry that stores 1 under the key instead of adding 1 to it.
Entry_Insert(m, k) == [j \in DOMAIN m \cup {k} |-> IF j = k THEN 1 ELSE m[j]]

\* map.entry(k).or_insert(0) += 1
Entry(m, k) == IF k \in DOMAIN m THEN [m EXCEPT ![k] = @ + 1] ELSE m @@ (k :> 1)

Min(a, b) == IF a <= b THEN a ELSE b
Max(a, b) == IF a >= b THEN a ELSE b

EmptyMap == [k \in {} |-> 0]

VARIABLES
    runner,         \* which dispatcher is under test: "core" or "cli"
    url,            \* Config.url
    request_count,  \* Config.request_count
    concurrency,    \* Config.concurrency
    pc,             \* position of Runner::run
    runs,           \* number of calls of Runner::run so far
    now,            \* the monotonic clock, in milliseconds
    start,          \* `start` of Runner::run
    next,           \* next index the iterator of `indices` will yield
    stream_done,    \* the fused index stream has returned None
    in_progress,    \* BufferUnordered's queue: index -> running attempt
    results,        \* core: the collected Vec<Result<RequestResult>>
    collector,      \* cli: the LoadTestResults behind Arc<Mutex<..>>
    strong_count,   \* cli: Arc strong count of the collector
    ret,            \* value returned by Runner::run, None until it returns
    fate,           \* history: what the transport did to each attempt
    order,          \* history: attempt indices in order of completion
    caller,         \* who calls Runner::run: "lib" or the CLI's "main"
    test,           \* main: history of the preliminary test request
    reports,        \* main: number of calls of generate_report
    exit,           \* main: its return value, None until it returns
    files,          \* the reports directory: path -> who wrote its content
    gen             \* running generate_report calls: id -> position, counter

vars == <<runner, url, request_count, concurrency, pc, runs, now, start, next, stream_done,
          in_progress, results, collector, strong_count, ret, fate, order,
          caller, test, reports, exit, files, gen>>

config == <<runner, url, request_count, concurrency>>

\* The state of pressr-cli's main outside Runner::run.
cli_main == <<caller, test, reports, exit>>

\* The reports directory and the generate_report calls working in it.
report_fs == <<files, gen>>

\* ------------------------------------------------------------ core runner

\* Variant of is_success with the upper end of the range included.
is_success_Through300(status_code) == status_code >= 200 /\ status_code <= 300

\* http::StatusCode::is_success
is_success(status_code) == status_code >= 200 /\ status_code < 300

\* http::StatusCode::canonical_reason().unwrap_or("Unknown")
canonical_reason(status_code) ==
    CASE status_code = 200 -> "OK"
      [] status_code = 300 -> "Multiple Choices"
      [] status_code = 404 -> "Not Found"
      [] status_code = 500 -> "Internal Server Error"
      [] OTHER -> "Unknown"

\* Display of a u16 status code, as format!("{}", status_code) prints it
u16_to_string(status_code) ==
    CASE status_code = 199 -> "199"
      [] status_code = 200 -> "200"
      [] status_code = 299 -> "299"
      [] status_code = 300 -> "300"
      [] status_code = 404 -> "404"
      [] status_code = 500 -> "500"
      [] OTHER -> "?"

\* format!("HTTP Error: {} {}", status_code, reason): a string is the
\* sequence of its formatted fragments.
HttpErrorMessage(status_code) ==
    <<"HTTP Error: ", u16_to_string(status_code), " ", canonical_reason(status_code)>>

\* A transport result is one of
\*   [kind |-> "send_err", err]                 builder.send() failed
\*   [kind |-> "body_err", status, err]         response.text()/bytes() failed
\*   [kind |-> "ok", status, size]              body fully read
\* `elapsed` is start.elapsed().as_millis() at the point the branch runs.

\* Variant of execute_request that attaches the HTTP error message only to
\* 4xx and 5xx answers.
execute_request_ErrorFrom400(t, elapsed) ==
    CASE t.kind = "ok" ->
            [ok |-> TRUE,
             val |-> [status |-> Some(t.status), response_time |-> elapsed,
                      success |-> is_success(t.status),
                      error |-> IF t.status >= 400
                                THEN Some(HttpErrorMessage(t.status))
                                ELSE None,
                      response_size |-> Some(t.size)]]
      [] t.kind = "body_err" ->
            [ok |-> TRUE,
             val |-> [status |-> Some(t.status), response_time |-> elapsed,
                      success |-> FALSE,
                      error |-> Some(<<"Error reading response body: ", t.err>>),
                      response_size |-> None]]
      [] t.kind = "send_err" ->
            [ok |-> TRUE,
             val |-> [status |-> None, response_time |-> elapsed,
                      success |-> FALSE, error |-> Some(<<t.err>>),
                      response_size |-> None]]

\* Variant of execute_request whose body-read failure carries no error
\* message.
execute_request_SilentBodyError(t, elapsed) ==
    CASE t.kind = "ok" ->
            [ok |-> TRUE,
             val |-> [status |-> Some(t.status),
                      response_time |-> elapsed,
                      success |-> is_success(t.status),
                      error |-> IF ~is_success(t.status)
                                THEN Some(HttpErrorMessage(t.status))
                                ELSE None,
                      response_size |-> Some(t.size)]]
      [] t.kind = "body_err" ->
            [ok |-> TRUE,
             val |-> [status |-> Some(t.status),
                      response_time |-> elapsed,
                      success |-> FALSE,
                      error |-> None,
                      response_size |-> None]]
      [] t.kind = "send_err" ->
            [ok |-> TRUE,
             val |-> [status |-> None,
                      response_time |-> elapsed,
                      success |-> FALSE,
                      error |-> Some(<<t.err>>),
                      response_size |-> None]]

\* pressr-core Runner::execute_request, the match on builder.send()
execute_request(t, elapsed) ==
    CASE t.kind = "ok" ->
            [ok |-> TRUE,
             val |-> [status |-> Some(t.status),
                      response_time |-> elapsed,
                      success |-> is_success(t.status),
                      error |-> IF ~is_success(t.status)
                                THEN Some(HttpErrorMessage(t.status))
                                ELSE None,
                      response_size |-> Some(t.size)]]
      [] t.kind = "body_err" ->
            [ok |-> TRUE,
             val |-> [status |-> Some(t.status),
                      response_time |-> elapsed,
                      success |-> FALSE,
                      error |-> Some(<<"Error reading response body: ", t.err>>),
                      response_size |-> None]]
      [] t.kind = "send_err" ->
            [ok |-> TRUE,
             val |-> [status |-> None,
                      response_time |-> elapsed,
                      success |-> FALSE,
                      error |-> Some(<<t.err>>),
                      response_size |-> None]]

\* pressr-core Runner::run, the Err(e) arm of the result loop
FallbackResult(e) ==
    [status |-> None, response_time |-> 0, success |-> FALSE,
     error |-> Some(e), response_size |-> None]

\* pressr-core Runner::run, the loop that turns results into request_results
ProcessResults(rs) ==
    [k \in 1..Len(rs) |-> IF rs[k].ok THEN rs[k].val ELSE FallbackResult(rs[k].err)]

\* pressr-core LoadTestResults::new, `for result in &requests`: each
\* accumulator of the loop after its first n iterations.

\* min_response_time = min_response_time.min(result.response_time)
RECURSIVE MinResponseTime(_, _)
MinResponseTime(requests, n) ==
    IF n = 0 THEN U128_MAX
    ELSE Min(MinResponseTime(requests, n - 1), requests[n].response_time)

\* Variant of MaxResponseTime in which each outcome overwrites the maximum.
MaxResponseTime_Last(requests, n) ==
    IF n = 0 THEN 0 ELSE requests[n].response_time

\* max_response_time = max_response_time.max(result.response_time)
RECURSIVE MaxResponseTime(_, _)
MaxResponseTime(requests, n) ==
    IF n = 0 THEN 0
    ELSE Max(MaxResponseTime(requests, n - 1), requests[n].response_time)

\* total_response_time += result.response_time
RECURSIVE TotalResponseTime(_, _)
TotalResponseTime(requests, n) ==
    IF n = 0 THEN 0
    ELSE TotalResponseTime(requests, n - 1) + requests[n].response_time

\* if let Some(status) = result.status { *status_codes.entry(status)... += 1 }
RECURSIVE StatusCodes(_, _)
StatusCodes(requests, n) ==
    IF n = 0 THEN EmptyMap
    ELSE IF IsSome(requests[n].status)
         THEN Entry(StatusCodes(requests, n - 1), Unwrap(requests[n].status))
         ELSE StatusCodes(requests, n - 1)

\* if let Some(error) = &result.error { *errors.entry(error.clone())... += 1 }
RECURSIVE Errors(_, _)
Errors(requests, n) ==
    IF n = 0 THEN EmptyMap
    ELSE IF IsSome(requests[n].error)
         THEN Entry(Errors(requests, n - 1), Unwrap(requests[n].error))
         ELSE Errors(requests, n - 1)

\* if let Some(size) = result.response_size { total_data += size }
RECURSIVE TotalData(_, _)
TotalData(requests, n) ==
    IF n = 0 THEN 0
    ELSE IF IsSome(requests[n].response_size)
         THEN TotalData(requests, n - 1) + Unwrap(requests[n].response_size)
         ELSE TotalData(requests, n - 1)

\* Variant of HasAllResponseSizes that is satisfied by one outcome with a
\* response_size.
HasAllResponseSizes_Any(requests) ==
    \E n \in 1..Len(requests) : IsSome(requests[n].response_size)

\* ... else { has_all_response_sizes = false }
HasAllResponseSizes(requests) ==
    \A n \in 1..Len(requests) : IsSome(requests[n].response_size)

\* f64.  A finite value is kept as the quotient num/den (den > 0) of the
\* two integers it was computed from, and 0/den as 0.0; the values the
\* model divides are far below 2^53, where `as f64` is exact and the
\* rounding of a quotient keeps its order against integers.  A division by
\* zero gives NaN or an infinity, as IEEE 754 division does.
F64_ZERO == [class |-> "finite", num |-> 0, den |-> 1]
F64_NAN == [class |-> "NaN", num |-> 0, den |-> 0]
F64_INFINITY == [class |-> "inf", num |-> 1, den |-> 0]
F64(num, den) ==
    IF num = 0 THEN F64_ZERO ELSE [class |-> "finite", num |-> num, den |-> den]

\* a as f64 / b as f64
f64_div(a, b) ==
    IF b # 0 THEN F64(a, b) ELSE IF a = 0 THEN F64_NAN ELSE F64_INFINITY

\* let bucket_size = if max_response_time > 1000 { 100 } else { 10 }
BucketSize(max_response_time) == IF max_response_time > 1000 THEN 100 ELSE 10

\* Variant of BucketKey that rounds the latency up to the next multiple of
\* the bucket size.
BucketKey_RoundUp(response_time, bucket_size) ==
    LET bucket == ((response_time + bucket_size - 1) \div bucket_size) * bucket_size
    IN <<bucket, bucket + bucket_size>>

\* let bucket = (result.response_time / bucket_size) * bucket_size;
\* format!("{}-{}", bucket, bucket + bucket_size): the key is kept as the
\* pair of its two numbers.
BucketKey(response_time, bucket_size) ==
    LET bucket == (response_time \div bucket_size) * bucket_size
    IN <<bucket, bucket + bucket_size>>

\* The loop `for result in &requests` after its first n iterations:
\* *response_time_distribution.entry(bucket_key).or_insert(0) += 1
RECURSIVE DistributionWith(_, _, _)
DistributionWith(requests, n, bucket_size) ==
    IF n = 0 THEN EmptyMap
    ELSE Entry(DistributionWith(requests, n - 1, bucket_size),
               BucketKey(requests[n].response_time, bucket_size))

\* Variant of ResponseTimeDistribution that takes the bucket size from the
\* maximum of the outcomes seen so far.
RECURSIVE ResponseTimeDistribution_RunningMax(_, _)
ResponseTimeDistribution_RunningMax(requests, n) ==
    IF n = 0 THEN EmptyMap
    ELSE Entry(ResponseTimeDistribution_RunningMax(requests, n - 1),
               BucketKey(requests[n].response_time,
                         BucketSize(MaxResponseTime(requests, n))))

\* response_time_distribution: bucket_size is computed once, before the
\* loop, from the maximum over the whole list.
ResponseTimeDistribution(requests, n) ==
    CHOOSE distribution \in
        {DistributionWith(requests, n, bucket_size) :
            bucket_size \in {BucketSize(MaxResponseTime(requests, Len(requests)))}} : TRUE

\* let successful_requests = requests.iter().filter(|r| r.success).count()
SuccessfulRequests(requests) ==
    Cardinality({k \in 1..Len(requests) : requests[k].success})

\* Variant of FailedRequests that counts the outcomes carrying a status
\* outside 2xx, so that an attempt that got no response is counted neither
\* as a success nor as a failure.
FailedRequests_ByStatus(requests) ==
    Cardinality({k \in 1..Len(requests) :
                    /\ IsSome(requests[k].status)
                    /\ ~is_success(Unwrap(requests[k].status))})

\* let failed_requests = total_requests - successful_requests
FailedRequests(requests) == Len(requests) - SuccessfulRequests(requests)

\* pressr-core LoadTestResults::new.  `duration` is in milliseconds, so
\* duration_secs = duration / 1000.
LoadTestResultsNew(requests, duration) ==
    LET total_requests == Len(requests)
        successful_requests == SuccessfulRequests(requests)
    IN [total_requests |-> total_requests,
        successful_requests |-> successful_requests,
        failed_requests |-> FailedRequests(requests),
        min_response_time |-> IF total_requests = 0 THEN 0
                              ELSE MinResponseTime(requests, total_requests),
        max_response_time |-> MaxResponseTime(requests, total_requests),
        total_response_time |-> TotalResponseTime(requests, total_requests),
        average_response_time |->
            IF total_requests > 0
            THEN f64_div(TotalResponseTime(requests, total_requests), total_requests)
            ELSE F64_ZERO,
        duration |-> duration,
        throughput |-> IF duration > 0
                       THEN f64_div(total_requests * 1000, duration)
                       ELSE F64_ZERO,
        status_codes |-> StatusCodes(requests, total_requests),
        errors |-> Errors(requests, total_requests),
        requests |-> requests,
        total_data_transferred |-> IF HasAllResponseSizes(requests)
                                   THEN Some(TotalData(requests, total_requests))
                                   ELSE None,
        transfer_rate |-> IF HasAllResponseSizes(requests) /\ duration > 0
                          THEN Some(f64_div(TotalData(requests, total_requests) * 1000,
                                            duration))
                          ELSE None,
        response_time_distribution |-> ResponseTimeDistribution(requests, total_requests)]

\* ------------------------------------------------- rates of the reports

\* pressr-core report.rs percentage(part, total), also pressr-cli report.rs
percentage(part, total) ==
    IF total = 0 THEN F64_ZERO ELSE f64_div(part * 100, total)

\* generate_html_report, the "Success Rate" card:
\* 100.0 * (results.successful_requests) as f64 / results.total_requests as f64
HtmlSuccessRate(res) ==
    f64_div(100 * res.successful_requests, res.total_requests)

\* generate_html_report, the status-code table, one row per counted status:
\* 100.0 * (*count as f64) / (results.total_requests as f64)
HtmlStatusPercent(res, status) ==
    f64_div(100 * res.status_codes[status], res.total_requests)

\* pressr-gui convert_result_to_response, success_rate
GuiSuccessRate(result) ==
    IF result.total_requests > 0
    THEN f64_div(result.successful_requests, result.total_requests)
    ELSE F64_ZERO

\* Every rate and percentage derived from an aggregate: by the aggregator,
\* by the text and JSON reports (percentage), by the HTML report and by the
\* GUI conversion.
DerivedRates(res) ==
    {res.average_response_time,
     res.throughput,
     percentage(res.successful_requests, res.total_requests),
     percentage(res.failed_requests, res.total_requests),
     HtmlSuccessRate(res),
     GuiSuccessRate(res)}
    \cup {percentage(res.status_codes[s], res.total_requests) :
            s \in DOMAIN res.status_codes}
    \cup {HtmlStatusPercent(res, s) : s \in DOMAIN res.status_codes}
    \cup {percentage(res.errors[e], res.total_requests) :
            e \in DOMAIN res.errors}

\* ------------------------------------------------- percentile histogram
\* Histogram::<u64>::new_with_bounds(1, 3_600_000, 3) with record and
\* value_at_percentile.  The histogram is kept as the map from the lowest
\* value of each bucket to the bucket's count.

\* Highest value the histogram is asked to track.
HIGHEST_TRACKABLE_VALUE == 3600000
\* Number of sub-buckets that 3 significant figures need: 2 * 10^3 rounded
\* up to a power of two.
SUB_BUCKET_COUNT == 2048

\* The histogram covers the values below the first power-of-two multiple
\* of SUB_BUCKET_COUNT above HIGHEST_TRACKABLE_VALUE.
RECURSIVE SmallestUntrackable(_)
SmallestUntrackable(v) ==
    IF v > HIGHEST_TRACKABLE_VALUE THEN v ELSE SmallestUntrackable(2 * v)

\* Width of the bucket holding value: 1 below SUB_BUCKET_COUNT, doubling
\* with each doubling of the value from there on.
RECURSIVE BucketWidth(_)
BucketWidth(value) ==
    IF value < SUB_BUCKET_COUNT THEN 1 ELSE 2 * BucketWidth(value \div 2)

lowest_equivalent(value) == (value \div BucketWidth(value)) * BucketWidth(value)
highest_equivalent(value) == lowest_equivalent(value) + BucketWidth(value) - 1

\* An empty histogram
HistogramNew == EmptyMap

\* hist.record(value): Err, the histogram unchanged, for a value outside
\* the covered range
record(hist, value) ==
    IF value < SmallestUntrackable(SUB_BUCKET_COUNT)
    THEN [ok |-> TRUE, hist |-> Entry(hist, lowest_equivalent(value))]
    ELSE [ok |-> FALSE, hist |-> hist]

\* Number of recorded values in the buckets up to and including bucket b.
CountUpTo(hist, b) ==
    LET below == {x \in DOMAIN hist : x <= b}
        RECURSIVE Sum(_)
        Sum(S) == IF S = {} THEN 0
                  ELSE LET x == CHOOSE y \in S : TRUE IN hist[x] + Sum(S \ {x})
    IN Sum(below)

total_count(hist) ==
    IF DOMAIN hist = {} THEN 0
    ELSE CountUpTo(hist, CHOOSE b \in DOMAIN hist : \A x \in DOMAIN hist : x <= b)

\* hist.value_at_percentile(percentile): the highest value of the lowest
\* bucket at which the running count reaches ceil(percentile/100 * total),
\* at least 1; 0 when no bucket reaches it (nothing recorded).
value_at_percentile(hist, percentile) ==
    LET count_at_percentile == Max(1, (percentile * total_count(hist) + 99) \div 100)
        reached == {b \in DOMAIN hist : CountUpTo(hist, b) >= count_at_percentile}
    IN IF reached = {} THEN 0
       ELSE LET b == CHOOSE y \in reached : \A x \in reached : y <= x
            IN IF percentile = 0 THEN lowest_equivalent(b) ELSE highest_equivalent(b)

\* report.rs create_histogram / create_histogram_from_results, the loop
\* `for result in results { if let Err(e) = hist.record(..) { debug!(..) } }`
\* after its first n iterations
RECURSIVE RecordAll(_, _)
RecordAll(requests, n) ==
    IF n = 0 THEN HistogramNew
    ELSE record(RecordAll(requests, n - 1), requests[n].response_time).hist

\* report.rs create_histogram_from_results(results)
create_histogram_from_results(requests) ==
    IF requests = <<>> THEN None ELSE Some(RecordAll(requests, Len(requests)))

\* report.rs create_histogram(results)
create_histogram(res) ==
    IF res.requests = <<>> THEN None
    ELSE Some(RecordAll(res.requests, Len(res.requests)))

\* The percentiles every report asks for
ReportedPercentiles == {50, 90, 95, 99}

\* Variant of TestSummaryPercentiles that stores each value under the key
\* of the mirrored percentile (p50 under p99, p90 under p95, and back).
TestSummaryPercentiles_KeysMirrored(requests) ==
    IF requests # <<>>
    THEN LET h == create_histogram_from_results(requests)
             mirrored == (50 :> 99) @@ (90 :> 95) @@ (95 :> 90) @@ (99 :> 50)
         IN IF IsSome(h)
            THEN Some([p \in ReportedPercentiles |->
                          value_at_percentile(Unwrap(h), mirrored[p])])
            ELSE None
    ELSE None

\* TestSummary::new, the `percentiles` field: a map p50..p99 when a
\* histogram was created, None otherwise
TestSummaryPercentiles(requests) ==
    IF requests # <<>>
    THEN LET h == create_histogram_from_results(requests)
         IN IF IsSome(h)
            THEN Some([p \in ReportedPercentiles |-> value_at_percentile(Unwrap(h), p)])
            ELSE None
    ELSE None

\* generate_json_report with include_histograms, the `percentiles` field;
\* generate_text_report prints the same values under `if let Some(hist)`
JsonPercentiles(res) ==
    LET h == create_histogram(res)
    IN IF IsSome(h)
       THEN Some([p \in ReportedPercentiles |-> value_at_percentile(Unwrap(h), p)])
       ELSE None

\* generate_html_report:
\* histogram.as_ref().map(|h| h.value_at_percentile(p) as f64).unwrap_or(0.0)
HtmlPercentiles(res) ==
    LET h == create_histogram(res)
    IN IF IsSome(h)
       THEN Some([p \in ReportedPercentiles |-> value_at_percentile(Unwrap(h), p)])
       ELSE Some([p \in ReportedPercentiles |-> 0])

\* ------------------------------------------------ report.rs TestSummary

\* results.iter().map(|r| r.response_time as f64).sum()
RECURSIVE IterSum(_, _)
IterSum(requests, n) ==
    IF n = 0 THEN 0 ELSE IterSum(requests, n - 1) + requests[n].response_time

\* Variant of IterMinBy that keeps the later element whatever the
\* comparison says.
IterMinBy_Last(requests, n) ==
    IF n = 0 THEN None ELSE Some(requests[n].response_time)

\* .min_by(|a, b| a.partial_cmp(b).unwrap_or(Equal)) over the first n
\* response times: None for no element, else the first least one.
RECURSIVE IterMinBy(_, _)
IterMinBy(requests, n) ==
    IF n = 0 THEN None
    ELSE IF n = 1 THEN Some(requests[1].response_time)
    ELSE LET least == Unwrap(IterMinBy(requests, n - 1))
         IN IF requests[n].response_time < least
            THEN Some(requests[n].response_time)
            ELSE Some(least)

\* .max_by(..) over the first n response times: None for no element, else
\* the last greatest one.
RECURSIVE IterMaxBy(_, _)
IterMaxBy(requests, n) ==
    IF n = 0 THEN None
    ELSE IF n = 1 THEN Some(requests[1].response_time)
    ELSE LET greatest == Unwrap(IterMaxBy(requests, n - 1))
         IN IF requests[n].response_time >= greatest
            THEN Some(requests[n].response_time)
            ELSE Some(greatest)

\* Option::unwrap_or
unwrap_or(o, default) == IF IsSome(o) THEN Unwrap(o) ELSE default

\* TestSummary::new without its percentiles; total_time is in
\* milliseconds, so total_time.as_secs_f64() = total_time / 1000.
TestSummaryNew(requests, total_time) ==
    LET total_requests == Len(requests)
        successful_requests == Len(SelectSeq(requests, LAMBDA r : r.success))
    IN [total_requests |-> total_requests,
        successful_requests |-> successful_requests,
        failed_requests |-> total_requests - successful_requests,
        total_time |-> total_time,
        mean_response_time |-> IF total_requests > 0
                               THEN f64_div(IterSum(requests, total_requests), total_requests)
                               ELSE F64_ZERO,
        min_response_time |-> F64(unwrap_or(IterMinBy(requests, total_requests), 0), 1),
        max_response_time |-> F64(unwrap_or(IterMaxBy(requests, total_requests), 0), 1),
        rps |-> IF total_time > 0
                THEN f64_div(total_requests * 1000, total_time)
                ELSE F64_ZERO]

\* ------------------------------------------------------------- cli runner

\* pressr-cli RequestResult::success
RequestResultSuccess(status, status_text, duration, response_size) ==
    [status |-> status, status_text |-> status_text, duration_ms |-> duration,
     response_size |-> response_size, error |-> None]

\* pressr-cli RequestResult::error
RequestResultError(error_message, duration) ==
    [status |-> 0, status_text |-> "", duration_ms |-> duration,
     response_size |-> 0, error |-> Some(error_message)]

\* pressr-cli Runner::execute_request, the match on request_builder.send();
\* an Err carries the Display string of the AppError.
cli_execute_request(t, elapsed) ==
    CASE t.kind = "ok" ->
            [ok |-> TRUE,
             val |-> RequestResultSuccess(t.status, canonical_reason(t.status),
                                          elapsed, t.size)]
      [] t.kind = "body_err" ->
            [ok |-> FALSE,
             err |-> <<"Runner error: ", "Failed to read response body: ",
                       "Failed to read response body: ", t.err>>]
      [] t.kind = "send_err" ->
            [ok |-> FALSE,
             err |-> <<"Runner error: ", "Failed to execute request: ", t.err>>]

\* pressr-cli LoadTestResults::new
CliLoadTestResultsNew ==
    [completed_requests |-> 0, successful_requests |-> 0, failed_requests |-> 0,
     total_duration_ms |-> 0, min_duration_ms |-> U128_MAX, max_duration_ms |-> 0,
     avg_duration_ms |-> 0, results |-> <<>>, status_code_counts |-> EmptyMap]

\* Variant of add_result whose counter update lacks the final else branch:
\* an answer outside 2xx without an error is counted neither way.
add_result_NoElse(self, result) ==
    LET completed_requests == self.completed_requests + 1
        total_duration_ms == self.total_duration_ms + result.duration_ms
    IN [completed_requests |-> completed_requests,
        successful_requests |-> self.successful_requests
            + (IF ~IsSome(result.error) /\ result.status >= 200 /\ result.status < 300
               THEN 1 ELSE 0),
        failed_requests |-> self.failed_requests + (IF IsSome(result.error) THEN 1 ELSE 0),
        total_duration_ms |-> total_duration_ms,
        min_duration_ms |-> Min(self.min_duration_ms, result.duration_ms),
        max_duration_ms |-> Max(self.max_duration_ms, result.duration_ms),
        avg_duration_ms |-> total_duration_ms \div completed_requests,
        results |-> Append(self.results, result),
        status_code_counts |-> IF result.status > 0
                               THEN Entry(self.status_code_counts, result.status)
                               ELSE self.status_code_counts]

\* pressr-cli LoadTestResults::add_result
add_result(self, result) ==
    LET completed_requests == self.completed_requests + 1
        succeeded == ~IsSome(result.error) /\ result.status >= 200 /\ result.status < 300
        total_duration_ms == self.total_duration_ms + result.duration_ms
    IN [completed_requests |-> completed_requests,
        successful_requests |-> self.successful_requests + (IF succeeded THEN 1 ELSE 0),
        failed_requests |-> self.failed_requests + (IF succeeded THEN 0 ELSE 1),
        total_duration_ms |-> total_duration_ms,
        min_duration_ms |-> Min(self.min_duration_ms, result.duration_ms),
        max_duration_ms |-> Max(self.max_duration_ms, result.duration_ms),
        avg_duration_ms |-> IF completed_requests > 0
                            THEN total_duration_ms \div completed_requests
                            ELSE self.avg_duration_ms,
        results |-> Append(self.results, result),
        status_code_counts |-> IF result.status > 0
                               THEN Entry(self.status_code_counts, result.status)
                               ELSE self.status_code_counts]

\* Variant of CliPublish whose Err arm only logs and publishes nothing.
CliPublish_DropErr(self, r) ==
    IF r.ok THEN add_result(self, r.val) ELSE self

\* Variant of CliPublish with a lost update: the counter of completed
\* requests is written from a value read before an earlier update.
CliPublish_LostUpdate(self, r) ==
    LET c == IF r.ok THEN add_result(self, r.val)
             ELSE add_result(self, RequestResultError(<<"Request failed: ">> \o r.err, 0))
    IN [c EXCEPT !.completed_requests = Max(1, self.completed_requests)]

\* pressr-cli Runner::run, the body of the async block after execute_request
\* returned: both arms lock the collector and add one result.
CliPublish(self, r) ==
    IF r.ok THEN add_result(self, r.val)
    ELSE add_result(self, RequestResultError(<<"Request failed: ">> \o r.err, 0))

\* The collector after add_result was called with the first n results of
\* a list, in the order of the list.
RECURSIVE AddAll(_, _)
AddAll(rs, n) ==
    IF n = 0 THEN CliLoadTestResultsNew ELSE add_result(AddAll(rs, n - 1), rs[n])

\* --------------------------------------------------------------- actions

Init ==
    /\ runner \in {"core", "cli"}
    /\ url \in Urls
    /\ request_count \in 0..MaxRequests
    /\ concurrency \in 0..MaxConcurrency
    /\ pc = "idle"
    /\ runs = 0
    /\ now = 0
    /\ start = 0
    /\ next = 0
    /\ stream_done = FALSE
    /\ in_progress = EmptyMap
    /\ results = <<>>
    /\ collector = None
    /\ strong_count = 0
    /\ ret = None
    /\ fate = EmptyMap
    /\ order = <<>>
    /\ caller = "lib"
    /\ test = <<>>
    /\ reports = 0
    /\ exit = None
    /\ files = EmptyMap
    /\ gen = EmptyMap

InFlight == Cardinality(DOMAIN in_progress)

\* Variant of HasRoom that treats a limit of 1 as a limit of 2.
HasRoom_AtLeastTwo == InFlight < Max(concurrency, 2)

\* Variant of HasRoom with the limit off by one.
HasRoom_OffByOne == InFlight <= concurrency

\* The fill loop of BufferUnordered::poll_next may pull another future.
HasRoom == InFlight < concurrency

\* Runner::run is called: start = Instant::now(); the cli runner creates the
\* shared collector.
Run ==
    /\ pc = "idle"
    /\ pc' = "polling"
    /\ runs' = runs + 1
    /\ start' = now
    /\ IF runner = "cli"
       THEN collector' = Some(CliLoadTestResultsNew) /\ strong_count' = 1
       ELSE UNCHANGED <<collector, strong_count>>
    /\ UNCHANGED <<config, cli_main, report_fs, now, next, stream_done, in_progress, results, ret, fate, order>>

\* Variant of RunAgain in which what the previous call collected is kept,
\* as if the Vec and the collector were fields of the Runner.
RunAgain_KeepCollected ==
    /\ pc = "done"
    /\ runs < MaxRuns
    /\ pc' = "polling"
    /\ runs' = runs + 1
    /\ start' = now
    /\ next' = 0
    /\ stream_done' = FALSE
    /\ ret' = None
    /\ fate' = EmptyMap
    /\ order' = <<>>
    /\ UNCHANGED <<config, cli_main, report_fs, now, in_progress, results, collector, strong_count>>

\* Runner::run takes &self and is called again after it returned: start,
\* indices, the stream, the collected Vec and the cli's collector are
\* locals of the call and are made anew; the caller takes the new call's
\* return value, and the history restarts with the call.
RunAgain ==
    /\ pc = "done"
    /\ runs < MaxRuns
    /\ pc' = "polling"
    /\ runs' = runs + 1
    /\ start' = now
    /\ next' = 0
    /\ stream_done' = FALSE
    /\ results' = <<>>
    /\ IF runner = "cli"
       THEN collector' = Some(CliLoadTestResultsNew) /\ strong_count' = 1
       ELSE UNCHANGED <<collector, strong_count>>
    /\ ret' = None
    /\ fate' = EmptyMap
    /\ order' = <<>>
    /\ UNCHANGED <<config, cli_main, report_fs, now, in_progress>>

\* Variant of PullNext that hands out no further index once an attempt
\* ended in a transport or body-read error.
PullNext_StopOnFailure ==
    /\ pc = "polling"
    /\ HasRoom
    /\ ~stream_done
    /\ next < request_count
    /\ \A i \in DOMAIN fate : fate[i].t.kind = "ok"
    /\ in_progress' = in_progress @@ (next :> [phase |-> "send", start |-> now, status |-> None])
    /\ next' = next + 1
    /\ strong_count' = IF runner = "cli" THEN strong_count + 1 ELSE strong_count
    /\ UNCHANGED <<config, cli_main, report_fs, runs, pc, now, start, stream_done, results, collector, ret, fate, order>>

\* Variant of PullNext whose index stream steps by two: the index after
\* the one handed out is never started.
PullNext_SkipOne ==
    /\ pc = "polling"
    /\ HasRoom
    /\ ~stream_done
    /\ next < request_count
    /\ in_progress' = in_progress @@ (next :> [phase |-> "send", start |-> now, status |-> None])
    /\ next' = Min(next + 2, request_count)
    /\ strong_count' = IF runner = "cli" THEN strong_count + 1 ELSE strong_count
    /\ UNCHANGED <<config, cli_main, report_fs, runs, pc, now, start, stream_done, results, collector, ret, fate, order>>

\* Fill loop: the index stream yields the next index, .map() builds its
\* future (the cli closure clones the Arc) and the queue takes it; the
\* queue polls it in the same poll, which runs `start = Instant::now()`.
PullNext ==
    /\ pc = "polling"
    /\ HasRoom
    /\ ~stream_done
    /\ next < request_count
    /\ in_progress' = in_progress @@ (next :> [phase |-> "send", start |-> now, status |-> None])
    /\ next' = next + 1
    /\ strong_count' = IF runner = "cli" THEN strong_count + 1 ELSE strong_count
    /\ UNCHANGED <<config, cli_main, report_fs, runs, pc, now, start, stream_done, results, collector, ret, fate, order>>

\* Fill loop: the index stream is exhausted.
StreamEnd ==
    /\ pc = "polling"
    /\ HasRoom
    /\ ~stream_done
    /\ next = request_count
    /\ stream_done' = TRUE
    /\ UNCHANGED <<config, cli_main, report_fs, runs, pc, now, start, next, in_progress, results, collector,
                   strong_count, ret, fate, order>>

\* The fill loop is over when the queue is full or the stream is done.
FillOver == ~HasRoom \/ stream_done

\* The queue holds running attempts, none is ready: poll_next returns
\* Pending and the task parks until a transport event wakes it.
Park ==
    /\ pc = "polling"
    /\ FillOver
    /\ in_progress # EmptyMap
    /\ pc' = "pending"
    /\ UNCHANGED <<config, cli_main, report_fs, runs, now, start, next, stream_done, in_progress, results,
                   collector, strong_count, ret, fate, order>>

\* The queue is empty but the stream was never polled to its end (the fill
\* loop did not run): poll_next returns Pending with no waker registered.
ParkNoWaker ==
    /\ pc = "polling"
    /\ FillOver
    /\ in_progress = EmptyMap
    /\ ~stream_done
    /\ pc' = "pending"
    /\ UNCHANGED <<config, cli_main, report_fs, runs, now, start, next, stream_done, in_progress, results,
                   collector, strong_count, ret, fate, order>>

\* Time passes while the task is parked on running attempts.
Tick ==
    /\ pc = "pending"
    /\ in_progress # EmptyMap
    /\ now < MaxTime
    /\ now' = now + 1
    /\ UNCHANGED <<config, cli_main, report_fs, runs, pc, start, next, stream_done, in_progress, results,
                   collector, strong_count, ret, fate, order>>

\* Variant of Complete that collects in reverse: the newest output is put
\* in front of the ones collected before it.
Complete_Prepend(i, t) ==
    LET elapsed == now - in_progress[i].start IN
    /\ in_progress' = [j \in DOMAIN in_progress \ {i} |-> in_progress[j]]
    /\ fate' = fate @@ (i :> [t |-> t, elapsed |-> elapsed])
    /\ order' = Append(order, i)
    /\ pc' = "polling"
    /\ IF runner = "core"
       THEN /\ results' = <<execute_request(t, elapsed)>> \o results
            /\ UNCHANGED <<collector, strong_count>>
       ELSE /\ collector' = Some(CliPublish(Unwrap(collector), cli_execute_request(t, elapsed)))
            /\ strong_count' = strong_count - 1
            /\ results' = Append(results, <<>>)
    /\ UNCHANGED <<config, cli_main, report_fs, runs, now, start, next, stream_done, ret>>

\* Variant of Complete in which a finished cli attempt keeps its clone of
\* the Arc.
Complete_KeepHandle(i, t) ==
    LET elapsed == now - in_progress[i].start IN
    /\ in_progress' = [j \in DOMAIN in_progress \ {i} |-> in_progress[j]]
    /\ fate' = fate @@ (i :> [t |-> t, elapsed |-> elapsed])
    /\ order' = Append(order, i)
    /\ pc' = "polling"
    /\ IF runner = "core"
       THEN /\ results' = Append(results, execute_request(t, elapsed))
            /\ UNCHANGED <<collector, strong_count>>
       ELSE /\ collector' = Some(CliPublish(Unwrap(collector), cli_execute_request(t, elapsed)))
            /\ strong_count' = strong_count
            /\ results' = Append(results, <<>>)
    /\ UNCHANGED <<config, cli_main, report_fs, runs, now, start, next, stream_done, ret>>

\* An attempt's future finished with transport result t: its output is
\* taken from the queue and collected (core: pushed to the Vec; cli: the
\* future itself published it under the lock and dropped its Arc clone).
Complete(i, t) ==
    LET elapsed == now - in_progress[i].start IN
    /\ in_progress' = [j \in DOMAIN in_progress \ {i} |-> in_progress[j]]
    /\ fate' = fate @@ (i :> [t |-> t, elapsed |-> elapsed])
    /\ order' = Append(order, i)
    /\ pc' = "polling"
    /\ IF runner = "core"
       THEN /\ results' = Append(results, execute_request(t, elapsed))
            /\ UNCHANGED <<collector, strong_count>>
       ELSE /\ collector' = Some(CliPublish(Unwrap(collector), cli_execute_request(t, elapsed)))
            /\ strong_count' = strong_count - 1
            /\ results' = Append(results, <<>>)
    /\ UNCHANGED <<config, cli_main, report_fs, runs, now, start, next, stream_done, ret>>

\* builder.send().await resolved to a response with a status line; only
\* a request with a parsed URL goes out.
SendOk(i, s) ==
    /\ pc = "pending"
    /\ UrlParses(url)
    /\ i \in DOMAIN in_progress
    /\ in_progress[i].phase = "send"
    /\ in_progress' = [in_progress EXCEPT ![i].phase = "body", ![i].status = Some(s)]
    /\ UNCHANGED <<config, cli_main, report_fs, runs, pc, now, start, next, stream_done, results, collector,
                   strong_count, ret, fate, order>>

\* builder.send().await resolved to an error: a transport fault, or the
\* builder's own error when the URL did not parse.
SendErr(i, e) ==
    /\ pc = "pending"
    /\ e \in (IF UrlParses(url) THEN TransportErrors ELSE BuilderErrors)
    /\ i \in DOMAIN in_progress
    /\ in_progress[i].phase = "send"
    /\ Complete(i, [kind |-> "send_err", err |-> e])

\* response.text()/bytes().await resolved to the whole body.
BodyOk(i, size) ==
    /\ pc = "pending"
    /\ i \in DOMAIN in_progress
    /\ in_progress[i].phase = "body"
    /\ Complete(i, [kind |-> "ok", status |-> Unwrap(in_progress[i].status), size |-> size])

\* response.text()/bytes().await resolved to a read error.
BodyErr(i, e) ==
    /\ pc = "pending"
    /\ i \in DOMAIN in_progress
    /\ in_progress[i].phase = "body"
    /\ Complete(i, [kind |-> "body_err", status |-> Unwrap(in_progress[i].status), err |-> e])

\* pressr-cli Runner::run: Arc::try_unwrap(results)...into_inner()
TryUnwrap ==
    IF strong_count = 1
    THEN [tag |-> "Ok", val |-> Unwrap(collector)]
    ELSE [tag |-> "Err", val |-> <<"Concurrency error: ", "Failed to unwrap results">>]

\* Variant of RunReturn that returns as soon as every index was handed out,
\* without waiting for the attempts still in the queue.
RunReturn_Early ==
    /\ pc = "polling"
    /\ FillOver
    /\ stream_done
    /\ pc' = "done"
    /\ ret' = IF runner = "core"
              THEN Some([tag |-> "Ok",
                         val |-> LoadTestResultsNew(ProcessResults(results), now - start)])
              ELSE Some(TryUnwrap)
    /\ UNCHANGED <<config, cli_main, report_fs, runs, now, start, next, stream_done, in_progress, results,
                   collector, strong_count, fate, order>>

\* The queue is empty and the stream is done: collect() resolves and
\* Runner::run runs to its return.
RunReturn ==
    /\ pc = "polling"
    /\ FillOver
    /\ in_progress = EmptyMap
    /\ stream_done
    /\ pc' = "done"
    /\ ret' = IF runner = "core"
              THEN Some([tag |-> "Ok",
                         val |-> LoadTestResultsNew(ProcessResults(results), now - start)])
              ELSE Some(TryUnwrap)
    /\ UNCHANGED <<config, cli_main, report_fs, runs, now, start, next, stream_done, in_progress, results,
                   collector, strong_count, fate, order>>

\* The transport events of Next, with the status line drawn from `statuses`.
Transport_(statuses) ==
    \/ \E i \in 0..(MaxRequests - 1), s \in statuses : SendOk(i, s)
    \/ \E i \in 0..(MaxRequests - 1), e \in TransportErrors \cup BuilderErrors : SendErr(i, e)
    \/ \E i \in 0..(MaxRequests - 1), size \in Sizes : BodyOk(i, size)
    \/ \E i \in 0..(MaxRequests - 1), e \in BodyErrors : BodyErr(i, e)

\* The steps of the task that polls the stream.
Poll ==
    \/ PullNext
    \/ StreamEnd
    \/ Park
    \/ ParkNoWaker
    \/ RunReturn

Next ==
    \/ Run
    \/ Tick
    \/ Poll
    \/ Transport_(Statuses)

Spec == Init /\ [][Next]_vars

\* Termination does not depend on which status an answer carries: the
\* fair specification lets the endpoint answer with one status only, next
\* to transport failures and body-read failures.
LiveStatuses == {200}

LiveNext ==
    \/ Run
    \/ Tick
    \/ Poll
    \/ Transport_(LiveStatuses)

\* The executor polls a woken task, and every started attempt eventually
\* resolves (success, failure or the transport's timeout).
FairSpec ==
    Init /\ [][LiveNext]_vars /\ WF_vars(Poll) /\ WF_vars(Transport_(LiveStatuses))

\* A Runner on which run is called up to MaxRuns times, one call after the
\* other.
RepeatNext ==
    \/ LiveNext
    \/ RunAgain

RepeatSpec == Init /\ [][RepeatNext]_vars

\* ------------------------------------------------------ pressr-cli main
\* main builds the client, sends one test request, and only in the Ok arm
\* of its send builds the Config and the pressr-core Runner, runs the load
\* test and generates the reports.

MainInit ==
    /\ runner = "core"
    /\ url \in Urls
    /\ request_count \in 0..MaxRequests
    /\ concurrency \in 0..MaxConcurrency
    /\ pc = "main"
    /\ runs = 0
    /\ now = 0
    /\ start = 0
    /\ next = 0
    /\ stream_done = FALSE
    /\ in_progress = EmptyMap
    /\ results = <<>>
    /\ collector = None
    /\ strong_count = 0
    /\ ret = None
    /\ fate = EmptyMap
    /\ order = <<>>
    /\ caller = "main"
    /\ test = <<>>
    /\ reports = 0
    /\ exit = None
    /\ files = EmptyMap
    /\ gen = EmptyMap

\* What main leaves alone while it deals with the test request.
load_test == <<config, runs, now, start, next, stream_done, in_progress, results,
               collector, strong_count, ret, fate, order, caller, report_fs>>

\* test_request_builder.send() is called and awaited.
TestRequest ==
    /\ pc = "main"
    /\ pc' = "test_send"
    /\ test' = Append(test, "sent")
    /\ UNCHANGED <<load_test, reports, exit>>

\* The test request got a response, of whatever status; main goes on to
\* read its body.
TestSendOk(s) ==
    /\ pc = "test_send"
    /\ UrlParses(url)
    /\ pc' = "test_body"
    /\ test' = Append(test, "response")
    /\ UNCHANGED <<load_test, reports, exit>>

\* Variant of TestSendErr that only warns and goes on to the load test.
TestSendErr_Proceed(e) ==
    /\ pc = "test_send"
    /\ e \in (IF UrlParses(url) THEN TransportErrors ELSE BuilderErrors)
    /\ pc' = "idle"
    /\ test' = Append(test, "send_failed")
    /\ UNCHANGED <<load_test, reports, exit>>

\* The Err arm of the send: main returns Err(AppError::Core(HttpClient(e))).
TestSendErr(e) ==
    /\ pc = "test_send"
    /\ e \in (IF UrlParses(url) THEN TransportErrors ELSE BuilderErrors)
    /\ pc' = "exited"
    /\ test' = Append(test, "send_failed")
    /\ exit' = Some([tag |-> "Err", val |-> <<"HTTP client error: ", e>>])
    /\ UNCHANGED <<load_test, reports>>

\* response.text().await gave the body: main prints it, builds the Config
\* and the Runner; the next step is runner.run().
TestBodyOk ==
    /\ pc = "test_body"
    /\ pc' = "idle"
    /\ test' = Append(test, "body")
    /\ UNCHANGED <<load_test, reports, exit>>

\* response.text().await failed: map_err(..)? returns from main.
TestBodyErr(e) ==
    /\ pc = "test_body"
    /\ pc' = "exited"
    /\ test' = Append(test, "body_failed")
    /\ exit' = Some([tag |-> "Err", val |-> <<"HTTP client error: ", e>>])
    /\ UNCHANGED <<load_test, reports>>

\* runner.run() returned: the primary generate_report; its error is
\* returned from main with `?`.
GenerateReport(ok) ==
    /\ pc = "done"
    /\ caller = "main"
    /\ Unwrap(ret).tag = "Ok"
    /\ reports' = reports + 1
    /\ IF ok
       THEN pc' = "report_formats" /\ UNCHANGED exit
       ELSE pc' = "exited" /\ exit' = Some([tag |-> "Err", val |-> <<"Error: ", "report">>])
    /\ UNCHANGED <<load_test, test>>

\* One of the additional report formats: generate_report is called and a
\* failure is only warned about.
AdditionalReport ==
    /\ pc = "report_formats"
    /\ reports < MaxReports
    /\ reports' = reports + 1
    /\ UNCHANGED <<load_test, pc, test, exit>>

\* main reaches its final Ok(()).
MainReturn ==
    /\ pc = "report_formats"
    /\ pc' = "exited"
    /\ exit' = Some([tag |-> "Ok", val |-> <<>>])
    /\ UNCHANGED <<load_test, test, reports>>

MainNext ==
    \/ TestRequest
    \/ \E s \in Statuses : TestSendOk(s)
    \/ \E e \in TransportErrors \cup BuilderErrors : TestSendErr(e)
    \/ TestBodyOk
    \/ \E e \in BodyErrors : TestBodyErr(e)
    \/ LiveNext
    \/ \E ok \in BOOLEAN : GenerateReport(ok)
    \/ AdditionalReport
    \/ MainReturn

MainSpec == MainInit /\ [][MainNext]_vars

\* ------------------------------------- generate_report, the output file
\* generate_report with options.output_file = None, after the report text
\* was rendered: the loop that looks for a free reports/report_N.<ext> and
\* the creation of the file.  The calls that run at the same time are
\* threads of one process or several processes in one directory; calls for
\* the same format compete for the same names.

Generators == 1..MaxGenerators

\* `extension` of the formats asked for
Extensions == {"html", "json"}

\* "reports/report_{counter}.{extension}"
OutputPath(counter, extension) == <<"reports/report_", counter, ".", extension>>

\* Directories a generation may start in: empty, or holding the reports of
\* earlier runs (written by 0).
ReportDirs ==
    {EmptyMap,
     (OutputPath(1, "html") :> 0),
     (OutputPath(1, "html") :> 0) @@ (OutputPath(2, "html") :> 0)}

ReportInit ==
    /\ runner = "core"
    /\ url = "http://localhost:8080/"
    /\ request_count = 0
    /\ concurrency = 1
    /\ pc = "done"
    /\ runs = 1
    /\ now = 0
    /\ start = 0
    /\ next = 0
    /\ stream_done = TRUE
    /\ in_progress = EmptyMap
    /\ results = <<>>
    /\ collector = None
    /\ strong_count = 0
    /\ ret = Some([tag |-> "Ok", val |-> LoadTestResultsNew(<<>>, 0)])
    /\ fate = EmptyMap
    /\ order = <<>>
    /\ caller = "lib"
    /\ test = <<>>
    /\ reports = 0
    /\ exit = None
    /\ files \in ReportDirs
    /\ \E k \in Generators :
          gen \in [1..k -> [at : {"loop"}, counter : {1}, extension : Extensions]]

\* What a report generation leaves alone.
dispatcher == <<config, cli_main, pc, runs, now, start, next, stream_done, in_progress,
                results, collector, strong_count, ret, fate, order>>

\* One turn of the loop: Path::new(&output_path).exists() is true, so
\* counter += 1.
ProbeTaken(g) ==
    /\ g \in DOMAIN gen
    /\ gen[g].at = "loop"
    /\ OutputPath(gen[g].counter, gen[g].extension) \in DOMAIN files
    /\ gen' = [gen EXCEPT ![g].counter = @ + 1]
    /\ UNCHANGED <<dispatcher, files>>

\* One turn of the loop: the path does not exist, break.
ProbeFree(g) ==
    /\ g \in DOMAIN gen
    /\ gen[g].at = "loop"
    /\ OutputPath(gen[g].counter, gen[g].extension) \notin DOMAIN files
    /\ gen' = [gen EXCEPT ![g].at = "create"]
    /\ UNCHANGED <<dispatcher, files>>

\* File::create(&output_path) opens the path, truncating a file that is
\* there, and write_all writes the report.
CreateFile(g) ==
    /\ g \in DOMAIN gen
    /\ gen[g].at = "create"
    /\ files' = [path \in DOMAIN files \cup {OutputPath(gen[g].counter, gen[g].extension)} |->
                    IF path = OutputPath(gen[g].counter, gen[g].extension)
                    THEN g ELSE files[path]]
    /\ gen' = [gen EXCEPT ![g].at = "done"]
    /\ UNCHANGED dispatcher

ReportNext ==
    \E g \in Generators :
        \/ ProbeTaken(g)
        \/ ProbeFree(g)
        \/ CreateFile(g)

ReportSpec == ReportInit /\ [][ReportNext]_vars

\* ------------------------------------------- aggregation taken on its own
\* LoadTestResults::new and add_result are public and take any outcome: the
\* aggregation specification feeds them outcome lists of every length up to
\* MaxRequests, drawn from outcomes of every shape the dispatchers build,
\* with latencies on both sides of the 1000 ms bucket-size threshold.

\* start.elapsed().as_millis() of an attempt
Latencies == {0, 7, 1500}
\* start.elapsed() of a run, in milliseconds
Durations == {0, 2000}
\* Status codes of the aggregated answers.
AggStatuses == {200, 404}

AggTransports ==
    {[kind |-> "ok", status |-> s, size |-> size] : s \in AggStatuses, size \in Sizes}
    \cup {[kind |-> "body_err", status |-> 200, err |-> e] : e \in BodyErrors}
    \cup {[kind |-> "send_err", err |-> e] : e \in TransportErrors}

\* The Result<RequestResult> values the core result loop may be handed.
CoreResults == {execute_request(t, d) : t \in AggTransports, d \in Latencies}

\* The RequestResult values the cli collector may be handed.
CliResults ==
    {RequestResultSuccess(s, canonical_reason(s), d, size) :
        s \in AggStatuses, d \in Latencies, size \in Sizes}
    \cup {RequestResultError(<<"Request failed: ", e>>, d) :
            e \in TransportErrors, d \in Latencies}

AggInit ==
    /\ runner \in {"core", "cli"}
    /\ url = "http://localhost:8080/"
    /\ request_count = MaxRequests
    /\ concurrency = 1
    /\ pc = "collecting"
    /\ runs = 1
    /\ now = 0
    /\ start = 0
    /\ next = 0
    /\ stream_done = FALSE
    /\ in_progress = EmptyMap
    /\ results = <<>>
    /\ collector = IF runner = "cli" THEN Some(CliLoadTestResultsNew) ELSE None
    /\ strong_count = IF runner = "cli" THEN 1 ELSE 0
    /\ ret = None
    /\ fate = EmptyMap
    /\ order = <<>>
    /\ caller = "lib"
    /\ test = <<>>
    /\ reports = 0
    /\ exit = None
    /\ files = EmptyMap
    /\ gen = EmptyMap

\* pressr-core: one more outcome is collected into the Vec.
CollectResult(r) ==
    /\ runner = "core"
    /\ pc = "collecting"
    /\ Len(results) < request_count
    /\ results' = Append(results, r)
    /\ UNCHANGED <<config, cli_main, report_fs, runs, pc, now, start, next, stream_done, in_progress,
                   collector, strong_count, ret, fate, order>>

\* pressr-cli: results.lock().unwrap().add_result(result)
AddResult(r) ==
    /\ runner = "cli"
    /\ pc = "collecting"
    /\ Len(Unwrap(collector).results) < request_count
    /\ collector' = Some(add_result(Unwrap(collector), r))
    /\ UNCHANGED <<config, cli_main, report_fs, runs, pc, now, start, next, stream_done, in_progress,
                   results, strong_count, ret, fate, order>>

\* pressr-core: LoadTestResults::new(request_results, duration)
AggregateResults(d) ==
    /\ runner = "core"
    /\ pc = "collecting"
    /\ pc' = "done"
    /\ now' = d
    /\ ret' = Some([tag |-> "Ok", val |-> LoadTestResultsNew(ProcessResults(results), d)])
    /\ UNCHANGED <<config, cli_main, report_fs, runs, start, next, stream_done, in_progress, results,
                   collector, strong_count, fate, order>>

\* pressr-cli: the collector is handed to the caller as it is.
ReturnCollector ==
    /\ runner = "cli"
    /\ pc = "collecting"
    /\ pc' = "done"
    /\ ret' = Some(TryUnwrap)
    /\ UNCHANGED <<config, cli_main, report_fs, runs, now, start, next, stream_done, in_progress, results,
                   collector, strong_count, fate, order>>

AggNext ==
    \/ \E r \in CoreResults : CollectResult(r)
    \/ \E r \in CliResults : AddResult(r)
    \/ \E d \in Durations : AggregateResults(d)
    \/ ReturnCollector

AggSpec == AggInit /\ [][AggNext]_vars

\* ------------------------------------------------------------ properties

Returned == pc = "done"
ReturnedOk == pc = "done" /\ Unwrap(ret).tag = "Ok"
Aggregate == Unwrap(ret).val

\* The outcomes recorded so far, in the order they were recorded.
Outcomes ==
    IF runner = "core" THEN ProcessResults(results)
    ELSE IF collector = None THEN <<>> ELSE Unwrap(collector).results

\* What the transport did to attempt i.
Transport(i) == fate[i].t
\* Time that passed between the start of attempt i and its completion.
Elapsed(i) == fate[i].elapsed

\* An attempt failed: transport error, body-read error, or non-2xx status.
AttemptFailed(i) ==
    \/ Transport(i).kind # "ok"
    \/ Transport(i).status < 200
    \/ Transport(i).status > 299

Kinds == {Transport(i).kind : i \in DOMAIN fate}

\* C1: for concurrency >= 1 a completed run returns exactly request_count
\* outcomes, one for each attempt index, and successful_requests +
\* failed_requests = request_count, whatever succeeded or failed and in
\* whatever order the attempts completed.
C1_ExactlyRequestCountOutcomes ==
    (Returned /\ concurrency >= 1) =>
        /\ Unwrap(ret).tag = "Ok"
        /\ Len(order) = request_count
        /\ {order[k] : k \in 1..Len(order)} = 0..(request_count - 1)
        /\ IF runner = "core"
           THEN /\ Len(Aggregate.requests) = request_count
                /\ Aggregate.total_requests = request_count
                /\ Aggregate.successful_requests + Aggregate.failed_requests = request_count
           ELSE /\ Len(Aggregate.results) = request_count
                /\ Aggregate.completed_requests = request_count
                /\ Aggregate.successful_requests + Aggregate.failed_requests = request_count

\* C1 witness: a cli run of three attempts returned; the attempts completed
\* out of index order and both successes and failures occurred.
C1_Witness ==
    /\ ReturnedOk /\ runner = "cli" /\ request_count = 3
    /\ order[1] # 0
    /\ Aggregate.successful_requests >= 1
    /\ \E i \in DOMAIN fate : Transport(i).kind = "ok" /\ Transport(i).status = 300
    /\ "send_err" \in Kinds

\* C2: at every moment the number of attempts started and not yet
\* completed is at most `concurrency`.
C2_BoundedInFlight ==
    /\ next - Len(order) <= concurrency
    /\ Cardinality(DOMAIN in_progress) = next - Len(order)

\* C2 witness: the queue is full while unstarted indices remain.
C2_Witness ==
    /\ concurrency >= 1 /\ next - Len(order) = concurrency /\ next < request_count
    /\ Len(order) >= 1

\* C3: with concurrency = 0 and request_count >= 1 the run is either served
\* as with concurrency = 1 or rejected before dispatch, and in both cases
\* returns to the caller: the call never parks on an empty queue, where no
\* attempt is left that could wake it.
C3_ZeroConcurrencyReturns ==
    (concurrency = 0 /\ request_count >= 1 /\ pc = "pending") => in_progress # EmptyMap

\* C4: for concurrency >= 1, when every started attempt eventually
\* completes, a started run eventually returns, and it has returned only
\* when all request_count attempts have completed and were collected.
C4_RunReturnsAfterAllAttempts ==
    /\ (pc = "polling" /\ concurrency >= 1) ~> Returned
    /\ [](Returned => /\ in_progress = EmptyMap
                      /\ next = request_count
                      /\ Len(order) = request_count
                      /\ Len(results) = request_count
                      /\ Len(Outcomes) = request_count)

\* C4 witness: a run with fewer slots than attempts has returned.
C4_Witness ==
    /\ Returned /\ concurrency = 1 /\ request_count = 3 /\ runner = "core"
    /\ Len(Aggregate.requests) = 3

\* C5: per-attempt failures never make the dispatcher return an error:
\* the run returns Ok and the aggregate counts exactly the failed attempts
\* in failed_requests, each of them being a recorded outcome.
C5_FailuresAreOutcomes ==
    Returned =>
        /\ Unwrap(ret).tag = "Ok"
        /\ Aggregate.failed_requests = Cardinality({i \in DOMAIN fate : AttemptFailed(i)})
        /\ \A i \in DOMAIN fate : \E k \in 1..Len(Outcomes) : order[k] = i
        /\ runner = "core" =>
              \A k \in 1..Len(order) : AttemptFailed(order[k]) => ~Aggregate.requests[k].success

\* C5 witness: a cli run in which every kind of failure occurred returned.
C5_Witness ==
    /\ ReturnedOk /\ runner = "cli"
    /\ "send_err" \in Kinds /\ "body_err" \in Kinds
    /\ \E i \in DOMAIN fate : Transport(i).kind = "ok" /\ Transport(i).status = 300
    /\ Aggregate.failed_requests = 3

\* Error strings the Err arm of the core result loop may be handed.
FallbackErrors == {<<"HTTP client error: ", e>> : e \in TransportErrors}

\* C6: every outcome of the core dispatcher - every branch of
\* execute_request and the fallback branch of run - has an error exactly
\* when it is not a success.
C6_ErrorIffNotSuccess ==
    runner = "core" =>
        /\ \A k \in 1..Len(results) :
              IsSome(ProcessResults(results)[k].error) = ~ProcessResults(results)[k].success
        /\ \A e \in FallbackErrors :
              LET r == ProcessResults(<<[ok |-> FALSE, err |-> e]>>)[1]
              IN IsSome(r.error) = ~r.success

\* C6 witness: the core dispatcher has recorded a success, a 3xx answer
\* and a body-read failure.
C6_Witness ==
    /\ runner = "core" /\ Len(results) = 3
    /\ \E k \in 1..3 : results[k].val.success
    /\ \E i \in DOMAIN fate : Transport(i).kind = "ok" /\ Transport(i).status = 300
    /\ "body_err" \in Kinds

\* C7: a core outcome is a success exactly when a response was obtained,
\* its body was fully read and the status is in 200..=299; response_size
\* is present exactly when the body was fully read.  This holds of every
\* outcome a run has recorded, and of the outcome execute_request builds
\* for an answer with any of the boundary statuses.
C7_SuccessIffBodyReadAnd2xx ==
    /\ runner = "core" =>
          \A k \in 1..Len(results) :
              LET o == results[k].val
                  t == Transport(order[k])
              IN /\ o.success <=> (t.kind = "ok" /\ t.status \in 200..299)
                 /\ IsSome(o.response_size) <=> t.kind = "ok"
                 /\ t.kind = "ok" => o.response_size = Some(t.size)
    /\ \A s \in BoundaryStatuses, size \in Sizes :
          LET read == execute_request([kind |-> "ok", status |-> s, size |-> size], 0).val
              unread == execute_request([kind |-> "body_err", status |-> s,
                                         err |-> "error decoding response body"], 0).val
          IN /\ read.success <=> s \in 200..299
             /\ read.response_size = Some(size)
             /\ ~unread.success
             /\ unread.response_size = None

\* C7 witness: the core dispatcher has recorded a 200 answer, a 300 answer
\* and a transport failure.
C7_Witness ==
    /\ runner = "core" /\ Len(results) = 3
    /\ \E i \in DOMAIN fate : Transport(i).kind = "ok" /\ Transport(i).status = 200
    /\ \E i \in DOMAIN fate : Transport(i).kind = "ok" /\ Transport(i).status = 300
    /\ "send_err" \in Kinds

\* The status-code histogram of the returned aggregate.
StatusHistogram == IF runner = "core" THEN Aggregate.status_codes ELSE Aggregate.status_code_counts

\* Number of completed attempts for which the transport delivered status s.
AnsweredWith(s) ==
    Cardinality({i \in DOMAIN fate : Transport(i).kind # "send_err" /\ Transport(i).status = s})

\* C8: a non-2xx answer with a readable body is recorded as a failure
\* whose error is non-empty and embeds the numeric status; the outcome
\* keeps the status, and the aggregate counts it in failed_requests and
\* under that status in the status-code histogram.
C8_Non2xxIsFailureWithStatus ==
    \A k \in 1..Len(Outcomes) :
        LET o == Outcomes[k]
            t == Transport(order[k])
        IN (t.kind = "ok" /\ t.status \notin 200..299) =>
              /\ IsSome(o.error)
              /\ Unwrap(o.error) # <<>>
              /\ \E j \in 1..Len(Unwrap(o.error)) : Unwrap(o.error)[j] = u16_to_string(t.status)
              /\ o.status = (IF runner = "core" THEN Some(t.status) ELSE t.status)
              /\ ReturnedOk =>
                    /\ Aggregate.failed_requests >= 1
                    /\ t.status \in DOMAIN StatusHistogram
                    /\ StatusHistogram[t.status] >= 1

\* C9: when a status was obtained but reading the body failed, the outcome
\* is a failure with status = Some(code), no response_size and an error
\* describing the read fault, and the status is counted in the aggregate's
\* status-code histogram.
C9_BodyReadFailureKeepsStatus ==
    \A k \in 1..Len(Outcomes) :
        LET o == Outcomes[k]
            t == Transport(order[k])
        IN t.kind = "body_err" =>
              /\ IsSome(o.error)
              /\ \E j \in 1..Len(Unwrap(o.error)) : Unwrap(o.error)[j] = t.err
              /\ o.status = (IF runner = "core" THEN Some(t.status) ELSE t.status)
              /\ o.response_size = (IF runner = "core" THEN None ELSE 0)
              /\ runner = "core" => ~o.success
              /\ ReturnedOk =>
                    /\ t.status \in DOMAIN StatusHistogram
                    /\ StatusHistogram[t.status] = AnsweredWith(t.status)

\* C10: every outcome's latency is the time elapsed from the start of its
\* attempt to the end of its body read or to its failure, also for an
\* attempt that failed at transport or body-read level.
C10_LatencyIsElapsed ==
    \A k \in 1..Len(Outcomes) :
        (IF runner = "core" THEN Outcomes[k].response_time ELSE Outcomes[k].duration_ms)
            = Elapsed(order[k])

\* C11: the aggregate always satisfies successful_requests + failed_requests
\* = total_requests = number of stored outcomes: LoadTestResults::new on
\* every outcome list, and the incremental collector after every sequence
\* of add_result calls, at every intermediate state.
C11_CountsPartitionOutcomes ==
    /\ runner = "core" =>
          \A d \in Durations :
              LET a == LoadTestResultsNew(ProcessResults(results), d)
              IN /\ a.successful_requests + a.failed_requests = a.total_requests
                 /\ a.total_requests = Len(a.requests)
                 /\ Len(a.requests) = Len(results)
    /\ runner = "cli" =>
          LET c == Unwrap(collector)
          IN /\ c.successful_requests + c.failed_requests = c.completed_requests
             /\ c.completed_requests = Len(c.results)
    /\ ReturnedOk =>
          /\ Aggregate.successful_requests + Aggregate.failed_requests = Len(Outcomes)
          /\ runner = "core" => Aggregate.total_requests = Len(Outcomes)
          /\ runner = "cli" => Aggregate.completed_requests = Len(Outcomes)

\* C11 witness: an aggregate was built from a list holding a success, a
\* 404 answer and an attempt that got no response.
C11_Witness ==
    /\ ReturnedOk /\ runner = "core" /\ Len(results) = 3
    /\ Aggregate.successful_requests = 1
    /\ Aggregate.failed_requests = 2
    /\ \E k \in 1..3 : results[k].val.status = Some(404)
    /\ \E k \in 1..3 : results[k].val.status = None

\* C12: whenever total_requests > 0 the aggregate satisfies min latency <=
\* mean latency <= max latency: for the batch aggregator with its
\* real-valued mean, and for the incremental collector with its
\* integer-division average after every add_result.
C12_MeanBetweenMinAndMax ==
    /\ runner = "core" =>
          \A d \in Durations :
              LET a == LoadTestResultsNew(ProcessResults(results), d)
                  mean == a.average_response_time
              IN a.total_requests > 0 =>
                    /\ mean.class = "finite"
                    /\ a.min_response_time * mean.den <= mean.num
                    /\ mean.num <= a.max_response_time * mean.den
    /\ runner = "cli" =>
          LET c == Unwrap(collector)
          IN c.completed_requests > 0 =>
                /\ c.min_duration_ms <= c.avg_duration_ms
                /\ c.avg_duration_ms <= c.max_duration_ms

\* C12 witness: the aggregator is given three outcomes of three different
\* latencies, the largest first, and the mean lies strictly between the
\* minimum and the maximum.
C12_Witness ==
    /\ runner = "core" /\ Len(results) = 3
    /\ results[1].val.response_time > results[2].val.response_time
    /\ results[2].val.response_time > results[3].val.response_time
    /\ LET a == LoadTestResultsNew(ProcessResults(results), 0)
           mean == a.average_response_time
       IN /\ a.min_response_time * mean.den < mean.num
          /\ mean.num < a.max_response_time * mean.den

\* The minimum latency of the returned aggregate.
MinLatency ==
    IF runner = "core" THEN Aggregate.min_response_time ELSE Aggregate.min_duration_ms

\* C13: a run with request_count = 0 returns an aggregate whose counts are
\* all zero and whose minimum latency is 0; the u128::MAX value that
\* initialises the running minimum never appears in a returned aggregate.
C13_EmptyRunHasZeroMinimum ==
    /\ (ReturnedOk /\ request_count = 0) =>
          /\ Len(Outcomes) = 0
          /\ Aggregate.successful_requests = 0
          /\ Aggregate.failed_requests = 0
          /\ (IF runner = "core" THEN Aggregate.total_requests
                                 ELSE Aggregate.completed_requests) = 0
          /\ MinLatency = 0
    /\ ReturnedOk => MinLatency # U128_MAX

\* C14: when total_requests = 0 every rate or percentage derived from the
\* aggregate - mean latency, throughput, success rate, failure rate,
\* per-status percentage, in the aggregator, in every report format and
\* in the GUI conversion - is exactly 0, no division by zero having been
\* evaluated.
C14_ZeroRequestsZeroRates ==
    (ReturnedOk /\ runner = "core" /\ Aggregate.total_requests = 0) =>
        \A rate \in DerivedRates(Aggregate) : rate = F64_ZERO

\* The successful outcomes of a list, in their order.
Successes(requests) == SelectSeq(requests, LAMBDA r : r.success)

\* C15: the percentiles p50/p90/p95/p99 are computed from the latencies of
\* the successful outcomes only: the percentiles reported for an outcome
\* list are those reported for the list with its failed outcomes removed,
\* in the summary as in the reports.
C15_PercentilesFromSuccessesOnly ==
    runner = "core" =>
        LET requests == ProcessResults(results)
            all == LoadTestResultsNew(requests, 0)
            successes == LoadTestResultsNew(Successes(requests), 0)
        IN /\ TestSummaryPercentiles(requests) = TestSummaryPercentiles(Successes(requests))
           /\ JsonPercentiles(all) = JsonPercentiles(successes)
           /\ HtmlPercentiles(all) = HtmlPercentiles(successes)

\* Percentiles at which monotonicity is queried, the reported ones and the
\* two ends among them.
QueriedPercentiles == {0, 1, 50, 90, 95, 99, 100}

\* C16: for every set of recorded latencies and all percentiles p1 < p2,
\* value_at_percentile(p1) <= value_at_percentile(p2); in particular the
\* reported percentiles satisfy p50 <= p90 <= p95 <= p99.
C16_PercentilesMonotone ==
    runner = "core" =>
        LET requests == ProcessResults(results)
            hist == RecordAll(requests, Len(requests))
            reported == TestSummaryPercentiles(requests)
        IN /\ \A p1, p2 \in QueriedPercentiles :
                 p1 < p2 => value_at_percentile(hist, p1) <= value_at_percentile(hist, p2)
           /\ IsSome(reported) =>
                 /\ Unwrap(reported)[50] <= Unwrap(reported)[90]
                 /\ Unwrap(reported)[90] <= Unwrap(reported)[95]
                 /\ Unwrap(reported)[95] <= Unwrap(reported)[99]

\* C16 witness: three different latencies were recorded, the largest
\* first, and the reported median lies strictly between the lowest and the
\* highest percentile value.
C16_Witness ==
    /\ runner = "core" /\ Len(results) = 3
    /\ results[1].val.response_time = 1500
    /\ LET reported == Unwrap(TestSummaryPercentiles(ProcessResults(results)))
           hist == RecordAll(ProcessResults(results), 3)
       IN /\ value_at_percentile(hist, 0) < reported[50]
          /\ reported[50] < reported[99]

\* A latency above the range the histogram covers: record refuses it.
RefusedLatencies == {5000000}

\* No value was recorded in the histogram built from the outcome list.
NothingRecorded(requests) == total_count(RecordAll(requests, Len(requests))) = 0

\* Every percentile query of the summary and of the reports on an outcome
\* list yields no value.
PercentilesUnavailable(requests) ==
    /\ TestSummaryPercentiles(requests) = None
    /\ JsonPercentiles(LoadTestResultsNew(requests, 0)) = None
    /\ HtmlPercentiles(LoadTestResultsNew(requests, 0)) = None

\* C17: when the percentile histogram holds no recorded latency - the
\* outcome list is empty, or record refused every sample - every
\* percentile query of the aggregation and report paths yields no value,
\* never a default number such as 0.
C17_NoSamplesNoPercentiles ==
    (ReturnedOk /\ runner = "core") =>
        /\ NothingRecorded(Aggregate.requests) =>
              PercentilesUnavailable(Aggregate.requests)
        /\ \A t \in AggTransports, d \in RefusedLatencies :
              LET requests == Aggregate.requests \o <<execute_request(t, d).val>>
              IN NothingRecorded(requests) => PercentilesUnavailable(requests)

\* A list rearranged by a permutation of its indices.
Permute(seq, pi) == [k \in 1..Len(seq) |-> seq[pi[k]]]

\* The statistics of a batch aggregate.
Statistics(a) ==
    [total_requests |-> a.total_requests,
     successful_requests |-> a.successful_requests,
     failed_requests |-> a.failed_requests,
     min_response_time |-> a.min_response_time,
     max_response_time |-> a.max_response_time,
     total_response_time |-> a.total_response_time,
     average_response_time |-> a.average_response_time,
     status_codes |-> a.status_codes,
     errors |-> a.errors,
     response_time_distribution |-> a.response_time_distribution]

\* The statistics of the incremental collector.
CliStatistics(c) ==
    [completed_requests |-> c.completed_requests,
     successful_requests |-> c.successful_requests,
     failed_requests |-> c.failed_requests,
     total_duration_ms |-> c.total_duration_ms,
     min_duration_ms |-> c.min_duration_ms,
     max_duration_ms |-> c.max_duration_ms,
     avg_duration_ms |-> c.avg_duration_ms,
     status_code_counts |-> c.status_code_counts]

\* C19: the aggregate statistics - counts, min, max, sum and mean of the
\* latency, status-code counts, error counts, latency-bucket distribution -
\* are the same for every permutation of an outcome list, and the final
\* statistics of the incremental collector do not depend on the order of
\* the add_result calls.
C19_StatisticsIgnoreOrder ==
    /\ runner = "core" =>
          LET requests == ProcessResults(results)
              statistics == Statistics(LoadTestResultsNew(requests, 0))
          IN \A pi \in Permutations(1..Len(requests)) :
                Statistics(LoadTestResultsNew(Permute(requests, pi), 0)) = statistics
    /\ runner = "cli" =>
          LET c == Unwrap(collector)
          IN \A pi \in Permutations(1..Len(c.results)) :
                CliStatistics(AddAll(Permute(c.results, pi), Len(c.results)))
                    = CliStatistics(c)

\* C19 witness: the aggregator is given three outcomes of different
\* latencies and kinds, a fast one first and one above 1000 ms last.
C19_Witness ==
    /\ runner = "core" /\ Len(results) = 3
    /\ results[1].val.response_time = 7
    /\ results[2].val.response_time = 0
    /\ results[3].val.response_time = 1500
    /\ results[1].val.success
    /\ results[2].val.status = Some(404)
    /\ results[3].val.status = None
    /\ DOMAIN LoadTestResultsNew(ProcessResults(results), 0).response_time_distribution
          = {<<0, 100>>, <<1500, 1600>>}

\* C20: with concurrency = 1 execution is serialized: at most one attempt
\* is in flight, an attempt is started only when every attempt started
\* before it has completed, and the attempts start and complete one after
\* another in index order.
C20_SerializedAtConcurrencyOne ==
    /\ [](concurrency = 1 =>
            /\ InFlight <= 1
            /\ DOMAIN in_progress \subseteq {next - 1}
            /\ Len(order) \in {next - 1, next}
            /\ \A k \in 1..Len(order) : order[k] = k - 1)
    /\ [][(concurrency = 1 /\ next' # next) =>
              /\ in_progress = EmptyMap
              /\ Len(order) = next
              /\ next' = next + 1
              /\ DOMAIN in_progress' = {next}]_vars

\* C20 witness: with one slot, the third attempt is in flight after the
\* first two completed in index order.
C20_Witness ==
    /\ concurrency = 1 /\ request_count = 3
    /\ order = <<0, 1>>
    /\ DOMAIN in_progress = {2}

\* The outcome the runner records for attempt i: core, the RequestResult of
\* execute_request as the collecting loop stores it; cli, the RequestResult
\* the attempt's async block hands to add_result.
OutcomeOf(i) ==
    IF runner = "core"
    THEN ProcessResults(<<execute_request(Transport(i), Elapsed(i))>>)[1]
    ELSE CliPublish(CliLoadTestResultsNew,
                    cli_execute_request(Transport(i), Elapsed(i))).results[1]

\* The outcome list of the returned aggregate.
ReturnedOutcomes == IF runner = "core" THEN Aggregate.requests ELSE Aggregate.results

\* C21: the outcome list is in completion order: at every moment the k-th
\* recorded outcome is the outcome of the attempt that completed k-th,
\* whatever its index, and the returned list is that list.
C21_OutcomesInCompletionOrder ==
    /\ \A recorded \in {Outcomes} :
          /\ Len(recorded) = Len(order)
          /\ \A k \in 1..Len(order) : recorded[k] = OutcomeOf(order[k])
    /\ ReturnedOk =>
          /\ Len(ReturnedOutcomes) = Len(order)
          /\ \A k \in 1..Len(order) : ReturnedOutcomes[k] = OutcomeOf(order[k])

\* C21 witness: a core run returned in which attempt 1 completed first and
\* attempt 0 last, with different outcomes, so the returned list differs
\* from the list in submission order.
C21_Witness ==
    /\ ReturnedOk /\ runner = "core" /\ request_count = 3
    /\ order = <<1, 2, 0>>
    /\ OutcomeOf(1) # OutcomeOf(0)
    /\ Aggregate.requests[1] = OutcomeOf(1)
    /\ Aggregate.requests[3] = OutcomeOf(0)

\* C22: failed attempts neither stop nor shrink the pool: while unstarted
\* indices remain the index stream is not closed, the task parks only on a
\* full queue, and a poll that finds a free slot can do nothing but start
\* the next index, however many of the earlier attempts failed.
C22_FailuresLeaveThePoolWhole ==
    (concurrency >= 1 /\ pc \in {"polling", "pending"} /\ next < request_count) =>
        /\ ~stream_done
        /\ pc = "pending" => InFlight = concurrency
        /\ (pc = "polling" /\ InFlight < concurrency) =>
              /\ ENABLED PullNext
              /\ ~ENABLED StreamEnd
              /\ ~ENABLED Park
              /\ ~ENABLED RunReturn

\* C22 witness: every attempt completed so far failed, one of each kind of
\* failure, and the slot of the last failure was given to the next index.
C22_Witness ==
    /\ concurrency = 2 /\ request_count = 3
    /\ Len(order) = 2 /\ \A i \in DOMAIN fate : AttemptFailed(i)
    /\ "send_err" \in Kinds /\ "body_err" \in Kinds
    /\ next = 3 /\ 2 \in DOMAIN in_progress

\* C23: a malformed target URL is a configuration error surfaced once,
\* before dispatch: no attempt is started, and the run returns an error
\* and no aggregate.
C23_MalformedUrlFailsTheRun ==
    ~UrlParses(url) =>
        /\ next = 0
        /\ in_progress = EmptyMap
        /\ Len(Outcomes) = 0
        /\ Returned => Unwrap(ret).tag = "Err"

\* Positions of a list of outcomes whose field f holds the value v.
Carrying(requests, f, v) == {k \in 1..Len(requests) : requests[k][f] = v}

\* C24: the status histogram of the aggregate has a key exactly for each
\* status carried by an outcome, with the number of outcomes carrying it
\* (an outcome without a status, None in pressr-core and 0 in pressr-cli,
\* adds nothing), and the error histogram has a key exactly for each
\* distinct error string, with the number of outcomes carrying that string.
C24_HistogramsCountOutcomes ==
    /\ (ReturnedOk /\ runner = "core") =>
          LET requests == Aggregate.requests IN
          /\ DOMAIN Aggregate.status_codes =
                {Unwrap(requests[k].status) :
                    k \in {j \in 1..Len(requests) : IsSome(requests[j].status)}}
          /\ \A s \in DOMAIN Aggregate.status_codes :
                Aggregate.status_codes[s] = Cardinality(Carrying(requests, "status", Some(s)))
          /\ DOMAIN Aggregate.errors =
                {Unwrap(requests[k].error) :
                    k \in {j \in 1..Len(requests) : IsSome(requests[j].error)}}
          /\ \A e \in DOMAIN Aggregate.errors :
                Aggregate.errors[e] = Cardinality(Carrying(requests, "error", Some(e)))
    /\ (runner = "cli" /\ IsSome(collector)) =>
          LET c == Unwrap(collector) IN
          /\ DOMAIN c.status_code_counts =
                {c.results[k].status : k \in 1..Len(c.results)} \ {0}
          /\ \A s \in DOMAIN c.status_code_counts :
                c.status_code_counts[s] = Cardinality(Carrying(c.results, "status", s))

\* C24 witness: a core aggregate of two 404 answers and one transport
\* failure: one status key with count 2, nothing for the outcome without
\* status, and two error keys with counts 2 and 1.
C24_Witness ==
    /\ ReturnedOk /\ runner = "core" /\ Len(Aggregate.requests) = 3
    /\ DOMAIN Aggregate.status_codes = {404}
    /\ Aggregate.status_codes[404] = 2
    /\ Cardinality(DOMAIN Aggregate.errors) = 2
    /\ \E e \in DOMAIN Aggregate.errors : Aggregate.errors[e] = 2
    /\ \E k \in 1..3 : Aggregate.requests[k].status = None

\* The outcomes of the attempts of the current call of run, in the order
\* in which they completed.
OutcomesOfThisRun == [k \in 1..Len(order) |-> OutcomeOf(order[k])]

\* C25: runs are independent: whichever call of run returns, its result
\* holds exactly the request_count outcomes of that call's own attempts,
\* its statistics are those of these outcomes and of that call's own
\* duration, and no step of a run changes the Runner's configuration.
C25_RunsAreIndependent ==
    /\ [](ReturnedOk =>
            /\ Len(order) = request_count
            /\ ReturnedOutcomes = OutcomesOfThisRun
            /\ IF runner = "core"
               THEN Aggregate = LoadTestResultsNew(OutcomesOfThisRun, now - start)
               ELSE Aggregate = AddAll(OutcomesOfThisRun, request_count))
    /\ [][config' = config]_vars

\* C25 witness: the second call of run on a Runner returned its three
\* outcomes; it began after the first call had spent time and collected
\* three outcomes of its own.
C25_Witness ==
    /\ ReturnedOk /\ runs = 2 /\ runner = "core" /\ request_count = 3
    /\ start > 0
    /\ Len(Aggregate.requests) = 3
    /\ Aggregate.total_requests = 3
    /\ Aggregate.failed_requests = 1

\* C26: the collector is only ever changed by one whole add_result at a
\* time: each change is the add_result of the one attempt that completes
\* in that step, applied to the collector as the step found it, so that at
\* every moment the collector is the fold of add_result over the completed
\* attempts and no update is lost; a finished run has counted and stored
\* request_count results, whatever the interleaving of the completions.
C26_CollectorUpdatesSerialized ==
    /\ []((runner = "cli" /\ IsSome(collector)) =>
             /\ Unwrap(collector).completed_requests = Len(order)
             /\ Len(Unwrap(collector).results) = Len(order)
             /\ \A outcomes \in {OutcomesOfThisRun} :
                   Unwrap(collector) = AddAll(outcomes, Len(order)))
    /\ []((Returned /\ runner = "cli" /\ concurrency >= 1) =>
             /\ Aggregate.completed_requests = request_count
             /\ Len(Aggregate.results) = request_count)
    /\ [][(runner = "cli" /\ pc \in {"polling", "pending"} /\ collector' # collector) =>
             /\ Len(order') = Len(order) + 1
             /\ collector' =
                   Some(add_result(Unwrap(collector),
                                   Unwrap(collector').results[Len(order')]))]_vars

\* C26 witness: a cli run with two attempts in flight at a time returned;
\* attempt 1 published its result before attempt 0, and all three results
\* were counted and stored.
C26_Witness ==
    /\ ReturnedOk /\ runner = "cli" /\ concurrency = 2 /\ request_count = 3
    /\ order = <<1, 0, 2>>
    /\ Aggregate.completed_requests = 3
    /\ Len(Aggregate.results) = 3

\* C27: a run never fails as a whole: the collector has one handle held
\* by run itself and one by each attempt in flight, so when the stream is
\* drained run holds the only handle, Arc::try_unwrap succeeds and run
\* returns Ok; the ConcurrencyError outcome is not reachable.
C27_CollectorAlwaysFinalized ==
    /\ (runner = "cli" /\ pc \in {"polling", "pending", "done"}) =>
          strong_count = 1 + InFlight
    /\ (runner = "cli" /\ ENABLED RunReturn) =>
          /\ strong_count = 1
          /\ TryUnwrap = [tag |-> "Ok", val |-> Unwrap(collector)]
    /\ Returned =>
          /\ Unwrap(ret).tag = "Ok"
          /\ runner = "cli" => Aggregate = Unwrap(collector)

\* C27 witness: a cli run of three attempts, two at a time, has returned
\* Ok with every attempt succeeded and run's handle the only one left.
C27_Witness ==
    /\ ReturnedOk /\ runner = "cli" /\ concurrency = 2 /\ request_count = 3
    /\ strong_count = 1
    /\ Aggregate.successful_requests = 3

\* C28: a latency above the histogram's range is clamped or its rejection
\* is reported: whenever create_histogram or create_histogram_from_results
\* hands back a histogram for k outcomes (neither has another way to
\* report an error), every one of the k latencies was counted in it.
C28_EveryLatencyCounted ==
    (ReturnedOk /\ runner = "core") =>
        \A t \in AggTransports, d \in RefusedLatencies :
            LET requests == Aggregate.requests \o <<execute_request(t, d).val>>
                from_aggregate == create_histogram(LoadTestResultsNew(requests, now - start))
                from_results == create_histogram_from_results(requests)
            IN /\ IsSome(from_aggregate) =>
                     total_count(Unwrap(from_aggregate)) = Len(requests)
               /\ IsSome(from_results) =>
                     total_count(Unwrap(from_results)) = Len(requests)

\* The attempt indices started so far in the current call of run.
Started == DOMAIN in_progress \cup DOMAIN fate

\* C29: each index of 0..request_count-1 is started exactly once: the
\* started indices are exactly those below `next`, none of them is in
\* flight after it completed or completes twice, a step starts at most one
\* index, and that index is the lowest not started before; a finished run
\* has started and completed every index.
C29_EachIndexStartedOnce ==
    /\ [](/\ Started = 0..(next - 1)
          /\ next <= request_count
          /\ DOMAIN in_progress \cap DOMAIN fate = {}
          /\ Cardinality({order[k] : k \in 1..Len(order)}) = Len(order)
          /\ {order[k] : k \in 1..Len(order)} = DOMAIN fate
          /\ (Returned /\ concurrency >= 1) => DOMAIN fate = 0..(request_count - 1))
    /\ [][(pc = "polling" \/ pc = "pending") =>
             /\ Started \subseteq Started'
             /\ Started' # Started => Started' = Started \cup {next}]_vars

\* C29 witness: index 1 completed while index 0 is still in flight, and
\* its slot went to index 2: all three indices were started, each once.
C29_Witness ==
    /\ request_count = 3 /\ concurrency = 2 /\ next = 3
    /\ DOMAIN in_progress = {0, 2}
    /\ order = <<1>>

\* C30: in the CLI the load test is dispatched only after one preliminary
\* test request got a response and its body was read; when the test
\* request fails at transport level or its body cannot be read, main
\* returns an error, no run is started, no attempt is dispatched and no
\* report is generated.
C30_TestRequestGatesTheLoadTest ==
    /\ [](caller = "main" =>
            /\ (runs > 0 \/ next > 0 \/ in_progress # EmptyMap \/ reports > 0) =>
                  test = <<"sent", "response", "body">>
            /\ (test # <<>> /\ test[Len(test)] \in {"send_failed", "body_failed"}) =>
                  /\ pc = "exited"
                  /\ IsSome(exit) /\ Unwrap(exit).tag = "Err"
                  /\ runs = 0 /\ next = 0 /\ in_progress = EmptyMap /\ fate = EmptyMap
                  /\ ret = None
                  /\ reports = 0
            /\ Len(SelectSeq(test, LAMBDA ev : ev = "sent")) <= 1)
    /\ [][(caller = "main" /\ runs' # runs) => test = <<"sent", "response", "body">>]_vars

\* C30 witness: main ran a load test of three attempts after its test
\* request was answered and read, generated a report and returned Ok.
C30_Witness ==
    /\ caller = "main" /\ pc = "exited" /\ Unwrap(exit).tag = "Ok"
    /\ test = <<"sent", "response", "body">>
    /\ runs = 1 /\ Len(order) = 3 /\ reports >= 1

\* Two f64 values are the same number.
f64_eq(a, b) ==
    /\ a.class = "finite" /\ b.class = "finite"
    /\ a.num * b.den = b.num * a.den

\* C31: on every outcome list and duration, the empty list included,
\* TestSummary::new and LoadTestResults::new give the same total,
\* successful and failed counts, the same minimum, maximum and mean
\* response time and the same requests per second.
C31_SummaryAgreesWithAggregate ==
    (ReturnedOk /\ runner = "core") =>
        LET summary == TestSummaryNew(Aggregate.requests, Aggregate.duration) IN
        /\ summary.total_requests = Aggregate.total_requests
        /\ summary.successful_requests = Aggregate.successful_requests
        /\ summary.failed_requests = Aggregate.failed_requests
        /\ f64_eq(summary.min_response_time, F64(Aggregate.min_response_time, 1))
        /\ f64_eq(summary.max_response_time, F64(Aggregate.max_response_time, 1))
        /\ f64_eq(summary.mean_response_time, Aggregate.average_response_time)
        /\ f64_eq(summary.rps, Aggregate.throughput)
        /\ Aggregate.total_requests = 0 =>
              /\ summary.min_response_time = F64_ZERO
              /\ summary.max_response_time = F64_ZERO
              /\ summary.mean_response_time = F64_ZERO
              /\ summary.rps = F64_ZERO
              /\ Aggregate.min_response_time = 0

\* C31 witness: an aggregate of three outcomes with latencies 1500, 7 and
\* 0 ms in that order over a run of two seconds: both paths give minimum
\* 0, maximum 1500, mean 1507/3 and 1.5 requests per second.
C31_Witness ==
    /\ ReturnedOk /\ runner = "core" /\ Len(Aggregate.requests) = 3
    /\ Aggregate.requests[1].response_time = 1500
    /\ Aggregate.requests[2].response_time = 7
    /\ Aggregate.requests[3].response_time = 0
    /\ Aggregate.duration = 2000
    /\ Aggregate.successful_requests = 1
    /\ TestSummaryNew(Aggregate.requests, 2000).min_response_time = F64_ZERO
    /\ TestSummaryNew(Aggregate.requests, 2000).rps = F64(3000, 2000)

\* The sum of the values of a map of counts.
RECURSIVE SumValues(_)
SumValues(m) ==
    IF DOMAIN m = {} THEN 0
    ELSE LET key == CHOOSE j \in DOMAIN m : TRUE
         IN m[key] + SumValues([j \in DOMAIN m \ {key} |-> m[j]])

\* C32: in the aggregate of a run of the core dispatcher the error counts
\* sum to failed_requests, and the status-code counts sum to the number of
\* outcomes that carry a status, which is at most total_requests.
C32_HistogramTotals ==
    (ReturnedOk /\ runner = "core") =>
        /\ SumValues(Aggregate.errors) = Aggregate.failed_requests
        /\ SumValues(Aggregate.status_codes) =
              Cardinality({k \in 1..Len(Aggregate.requests) :
                              IsSome(Aggregate.requests[k].status)})
        /\ SumValues(Aggregate.status_codes) <= Aggregate.total_requests

\* C32 witness: a core run of three attempts returned with one success,
\* one failed body read and one failed send: two errors for two failures,
\* two statuses for three outcomes.
C32_Witness ==
    /\ ReturnedOk /\ runner = "core" /\ Aggregate.total_requests = 3
    /\ Aggregate.successful_requests = 1
    /\ "body_err" \in Kinds /\ "send_err" \in Kinds
    /\ SumValues(Aggregate.errors) = 2
    /\ SumValues(Aggregate.status_codes) = 2

\* C33: generate_report without output_file writes to report_N for the
\* smallest N >= 1 whose file does not exist, and no step of a generation
\* changes a file that exists, also when several generations run at the
\* same time.
C33_NeverOverwritesAReport ==
    /\ [](\A g \in DOMAIN gen :
            /\ \A n \in 1..(gen[g].counter - 1) :
                  OutputPath(n, gen[g].extension) \in DOMAIN files
            /\ gen[g].at = "done" =>
                  OutputPath(gen[g].counter, gen[g].extension) \in DOMAIN files)
    /\ [][\A path \in DOMAIN files :
             path \in DOMAIN files' /\ files'[path] = files[path]]_vars

\* C34: for a non-empty outcome list the latency distribution has buckets
\* of width 100 when max_response_time > 1000 and of width 10 otherwise;
\* every key is a bucket [b, b + width) with b a multiple of the width, its
\* count is the number of outcomes whose latency lies in it, every outcome
\* lies in exactly one bucket, the one with b = floor(latency / width) *
\* width, and the counts sum to total_requests; for an empty list the
\* distribution is empty.
C34_LatencyBuckets ==
    (ReturnedOk /\ runner = "core") =>
        LET requests == Aggregate.requests
            distribution == Aggregate.response_time_distribution
            width == IF Aggregate.max_response_time > 1000 THEN 100 ELSE 10
            Within(k, key) == /\ key[1] <= requests[k].response_time
                              /\ requests[k].response_time < key[2]
        IN /\ requests = <<>> => distribution = EmptyMap
           /\ \A key \in DOMAIN distribution :
                 /\ key[2] = key[1] + width
                 /\ key[1] % width = 0
                 /\ distribution[key] =
                       Cardinality({k \in 1..Len(requests) : Within(k, key)})
                 /\ distribution[key] >= 1
           /\ \A k \in 1..Len(requests) :
                 /\ Cardinality({key \in DOMAIN distribution : Within(k, key)}) = 1
                 /\ \E key \in DOMAIN distribution :
                       /\ Within(k, key)
                       /\ key[1] = (requests[k].response_time \div width) * width
           /\ SumValues(distribution) = Aggregate.total_requests

\* C34 witness: latencies 7, 1500 and 0 ms: the maximum is above 1000, so
\* the width is 100, the two fast outcomes share the bucket [0, 100) and
\* the slow one is alone in [1500, 1600).
C34_Witness ==
    /\ ReturnedOk /\ runner = "core" /\ Len(Aggregate.requests) = 3
    /\ Aggregate.requests[1].response_time = 7
    /\ Aggregate.requests[2].response_time = 1500
    /\ Aggregate.requests[3].response_time = 0
    /\ Aggregate.response_time_distribution = (<<0, 100>> :> 2) @@ (<<1500, 1600>> :> 1)

\* C35: total_data_transferred is Some(sum of the response sizes) exactly
\* when every outcome carries a response_size, hence Some(0) for the empty
\* list, and None as soon as one outcome lacks it; transfer_rate is Some
\* exactly when total_data_transferred is Some and the duration is
\* greater than zero, and is then the total divided by the seconds.
C35_DataTransferred ==
    (ReturnedOk /\ runner = "core") =>
        LET requests == Aggregate.requests
            sized == {k \in 1..Len(requests) : IsSome(requests[k].response_size)}
            sizes == [k \in 1..Len(requests) |->
                         IF k \in sized THEN Unwrap(requests[k].response_size) ELSE 0]
        IN /\ IsSome(Aggregate.total_data_transferred) <=> sized = 1..Len(requests)
           /\ IsSome(Aggregate.total_data_transferred) =>
                 Unwrap(Aggregate.total_data_transferred) = SumValues(sizes)
           /\ requests = <<>> => Aggregate.total_data_transferred = Some(0)
           /\ IsSome(Aggregate.transfer_rate) <=>
                 (IsSome(Aggregate.total_data_transferred) /\ Aggregate.duration > 0)
           /\ IsSome(Aggregate.transfer_rate) =>
                 f64_eq(Unwrap(Aggregate.transfer_rate),
                        f64_div(SumValues(sizes) * 1000, Aggregate.duration))

\* C35 witness: three answers of 10 bytes each, read in full, over a run
\* of two seconds: 30 bytes in total at 15 bytes per second.
C35_Witness ==
    /\ ReturnedOk /\ runner = "core" /\ Len(Aggregate.requests) = 3
    /\ Aggregate.duration = 2000
    /\ Aggregate.total_data_transferred = Some(30)
    /\ IsSome(Aggregate.transfer_rate)
    /\ f64_eq(Unwrap(Aggregate.transfer_rate), F64(15, 1))

====
